---- MODULE Spec2Model ----
(***************************************************************************)
(* Model of the forensic-alpha scanner:                                    *)
(*   src/utils/forensic_alpha.py   rolling_zscore, forensic_alpha, label   *)
(*   src/utils/alpha_ai_advisor.py ai_alpha_recommendation                 *)
(*   src/app.py                    the Streamlit script (one run of the    *)
(*                                 script, complete or cut short, = one    *)
(*                                 action)                                 *)
(*                                                                         *)
(* Numbers.  A nullable float is an option: <<>> is NaN/None, <<v>> a      *)
(* value.  A value given to rolling_zscore is written in tenths: <<v>> is  *)
(* the float64 nearest to v / 10, so 0.1 is <<1>> and 1.0 is <<10>>.  The   *)
(* raw scores of a table given to forensic_alpha are small integers.       *)
(* Normalized signals are fixed-point integers in units of 10^-7           *)
(* (truncated toward zero), the rounded forensic_alpha is an integer in    *)
(* units of 10^-4, weights are integers in units of 10^-2.                 *)
(*                                                                         *)
(* Floating point.  The test window.std() == 0 is decided as float64       *)
(* decides it: the values of a window differ, and std() is not 0, or they  *)
(* are all the same x, and std() is 0 exactly when the float64 mean of the *)
(* window is x itself.  That mean is computed bit for bit (the sum is      *)
(* rounded after every addition, the quotient once more).  Where std() is  *)
(* not 0, the mean, the deviation and the quotient are computed exactly    *)
(* and only the square root is truncated.  With the values and series      *)
(* lengths of the bounds below the truncated quotient is the float64 one   *)
(* truncated, and the truncation moves no unrounded alpha across a         *)
(* rounding boundary (the closest one is 9 * 10^-8 away, three times the   *)
(* error), so the rounded value is the one float64 arithmetic gives.       *)
(* Where an unrounded alpha is given as a decimal (the label study),       *)
(* round(4) is computed as numpy computes it on the nearest float64.       *)
(***************************************************************************)
EXTENDS Integers, Sequences, FiniteSets, TLC

VARIABLES
    phase,        \* which step of the run under study has been taken
    seriesA,      \* rolling_zscore: first input series
    seriesB,      \* rolling_zscore: second input series
    zA,           \* rolling_zscore(seriesA)
    zB,           \* rolling_zscore(seriesB)
    table,        \* forensic_alpha: the four input series, one row per year
    min_signals,  \* forensic_alpha: the min_signals argument
    result,       \* forensic_alpha: the returned DataFrame
    alpha_raw,    \* label study: an unrounded alpha, units of 10^-6
    labelled,     \* label study: <<rounded alpha, label>>
    http,         \* advisor: outcome of requests.post / raise_for_status / .json()
    raw,          \* advisor: the "response" text of the model, as tokens
    ai_view,      \* advisor / app: value returned by ai_alpha_recommendation
    uploaded_file,\* app: the file_uploader widget's current file
    raw_df,       \* app: st.session_state.raw_df
    pivot,        \* app: st.session_state.pivot
    confirmed,    \* app: st.session_state.confirmed
    alpha_df,     \* app: alpha_df computed by tab 3 in the last rerun
    run_status,   \* app: how the last run of the script ended
    tabs_run,     \* app: which tabs computed in the last run
    confirm_drawn \* app: the "Confirm & Calculate" button is on the page

vars == <<phase, seriesA, seriesB, zA, zB, table, min_signals, result,
          alpha_raw, labelled, http, raw, ai_view, uploaded_file, raw_df,
          pivot, confirmed, alpha_df, run_status, tabs_run, confirm_drawn>>

zvars == <<seriesA, seriesB, zA, zB>>
avars == <<table, min_signals, result>>
lvars == <<alpha_raw, labelled>>
hvars == <<http, raw>>
svars == <<uploaded_file, raw_df, pivot, confirmed, alpha_df, run_status, tabs_run,
           confirm_drawn>>

-----------------------------------------------------------------------------
(* Bounds of the model *)

\* longest series given to rolling_zscore on its own
MaxLen == 3
\* raw values of those series are 0, 0.1, ..., MaxVal / 10
MaxVal == 1
\* most years in a table given to forensic_alpha
MaxYears == 3
\* raw scores in those tables are 0..MaxScore
MaxScore == 1
\* each of the four series lacks a value in at most MaxGaps years
MaxGaps == 1
\* unrounded alphas are probed within ProbeSpan * 10^-6 of each label threshold
ProbeSpan == 250
\* longest model response, in tokens
MaxRaw == 5
\* most years in the pivot the app confirms
MaxPivotYears == 1

-----------------------------------------------------------------------------
(* Nullable numbers *)

Null == <<>>
Some(v) == <<v>>
IsNull(c) == c = <<>>
NotNull(c) == c # <<>>
Val(c) == c[1]

Opt(S) == {Null} \cup {Some(v) : v \in S}

\* all sequences over S of length 0..n
SeqsUpTo(S, n) == UNION {[1..k -> S] : k \in 0..n}

-----------------------------------------------------------------------------
(* float64: a positive value is M * 2^e with 2^52 <= M < 2^53.  The value   *)
(* nearest to a fraction is found from the fraction's binary digits.        *)

\* the denominator doubled until num / den < 2
RECURSIVE ScaleDen(_, _)
ScaleDen(num, den) == IF num >= 2 * den THEN ScaleDen(num, 2 * den) ELSE den

\* the numerator doubled until num / den >= 1
RECURSIVE ScaleNum(_, _)
ScaleNum(num, den) == IF num < den THEN ScaleNum(2 * num, den) ELSE num

\* what is left of r / den after k more binary digits are taken from it
RECURSIVE BitsRem(_, _, _)
BitsRem(r, den, k) == IF k = 0 THEN r ELSE BitsRem((2 * r) % den, den, k - 1)

\* the float64 x nearest to v / 10, v > 0: num / den in [1, 2) is the
\* significand of v / 10; of its 52 binary digits after the point the last 6
\* are lo and r / den is what is left beyond them; low is M % 64 for the M of
\* x (the 52 digits rounded half-even on r / den), and rho / den = M - 2^52 *
\* num / den is what that rounding added
Float64Of(v) ==
    LET den == ScaleDen(v, 10)
        num == ScaleNum(v, den)
        r46 == BitsRem(num - den, den, 46)
        lo  == (64 * r46) \div den
        r   == (64 * r46) % den
        up  == IF 2 * r > den \/ (2 * r = den /\ lo % 2 = 1) THEN 1 ELSE 0
    IN  [num |-> num, den |-> den, low |-> (lo + up) % 64, rho |-> up * den - r]

\* k * M + err >= 2^(52 + j), for the M of f: the sign of
\* 2^52 * (k * num - 2^j * den) + k * rho + err * den
AtLeast(f, k, err, j) ==
    IF k * f.num # (2 ^ j) * f.den THEN k * f.num > (2 ^ j) * f.den
    ELSE k * f.rho + err * f.den >= 0

\* the j with 2^(52 + j) <= k * M + err < 2^(53 + j), searched from j upward:
\* float64 keeps that number to a multiple of 2^j
RECURSIVE Exponent(_, _, _, _)
Exponent(f, k, err, j) ==
    IF AtLeast(f, k, err, j + 1) THEN Exponent(f, k, err, j + 1) ELSE j

\* s + x in float64 for s = (k - 1) * M + err and x = M: the sum k * M + err
\* rounded half-even to a multiple of 2^j, given as its distance from k * M
AddErr(f, k, err) ==
    LET sp  == 2 ^ Exponent(f, k, err, 0)
        low == (k * f.low + err) % sp
    IN  IF 2 * low < sp THEN err - low
        ELSE IF 2 * low > sp THEN err - low + sp
        ELSE IF (k * f.low + err - low) % (2 * sp) = 0 THEN err - low
        ELSE err - low + sp

\* values.sum() of m copies of x, one addition after the other, given as its
\* distance from m * M (numpy adds fewer than 9 values in sequence)
RECURSIVE SumErr(_, _)
SumErr(f, m) == IF m <= 1 THEN 0 ELSE AddErr(f, m, SumErr(f, m - 1))

\* the quotient err / m rounded half-even to an integer that is added to M
DivErr(f, err, m) ==
    IF 2 * (err % m) < m THEN err \div m
    ELSE IF 2 * (err % m) > m THEN (err \div m) + 1
    ELSE IF (f.low + (err \div m)) % 2 = 0 THEN err \div m
    ELSE (err \div m) + 1

\* window.mean() - x for a window whose m non-null values are all x = v / 10,
\* v >= 0, in units of the last binary place of x: (values.sum() / count) - x
MeanDev(v, m) ==
    IF v = 0 THEN 0 ELSE DivErr(Float64Of(v), SumErr(Float64Of(v), m), m)

-----------------------------------------------------------------------------
(* rolling_zscore: src/utils/forensic_alpha.py:8-19 *)

\* the non-null values of a window, in order (pandas count/mean/std skip NaN)
RECURSIVE Present(_)
Present(w) ==
    IF w = <<>> THEN <<>>
    ELSE IF IsNull(Head(w)) THEN Present(Tail(w))
    ELSE <<Val(Head(w))>> \o Present(Tail(w))

RECURSIVE Sum(_)
Sum(s) == IF s = <<>> THEN 0 ELSE Head(s) + Sum(Tail(s))

RECURSIVE SumSq(_)
SumSq(s) == IF s = <<>> THEN 0 ELSE Head(s) * Head(s) + SumSq(Tail(s))

\* window.count()
Count(w) == Len(Present(w))

\* m * (m-1) * (sample variance) of the window in exact arithmetic, m*Q - S^2,
\* in units of 10^-2: zero iff the non-null values of the window are all the
\* same (which does not make the float64 std() zero, see StdIsZero)
VarNum(w) ==
    LET v == Present(w)
    IN  Len(v) * SumSq(v) - Sum(v) * Sum(v)

\* largest digit d with (20 r + d) d <= rem
RECURSIVE RootDigit(_, _, _)
RootDigit(r, rem, d) ==
    IF d = 0 \/ (20 * r + d) * d <= rem THEN d ELSE RootDigit(r, rem, d - 1)

\* long-hand square root of p/q: r is the root so far, rem the remainder,
\* c the carry of the long division p/q, k the decimal digits still to produce
RECURSIVE RootStep(_, _, _, _, _)
RootStep(r, rem, c, q, k) ==
    IF k = 0 THEN r
    ELSE LET t    == c * 100
             rem2 == rem * 100 + (t \div q)
             d    == RootDigit(r, rem2, 9)
         IN  RootStep(10 * r + d, rem2 - (20 * r + d) * d, t % q, q, k - 1)

\* integer square root by search from below
RECURSIVE ISqrtFrom(_, _)
ISqrtFrom(n, r) == IF (r + 1) * (r + 1) > n THEN r ELSE ISqrtFrom(n, r + 1)

\* floor(10^7 * sqrt(p / q)), p >= 0, q > 0
SqrtFixed(p, q) ==
    LET whole == p \div q
        r0    == ISqrtFrom(whole, 0)
    IN  RootStep(r0, whole - r0 * r0, p % q, q, 7)

\* (x - mean) / std for a window whose m non-null values are all x and whose
\* float64 mean is d units off x: every deviation is -d units, std is
\* |d| * sqrt(m / (m - 1)) units and the quotient -sign(d) * sqrt((m - 1) / m)
ZOfEqual(m, d) ==
    IF d > 0 THEN -SqrtFixed(m - 1, m) ELSE SqrtFixed(m - 1, m)

\* (x - mean) / std of the window's non-null values, x its last value, in
\* units of 10^-7: (m x - S) / sqrt(m (m Q - S^2) / (m - 1)) when the values
\* differ
ZOf(w) ==
    LET v   == Present(w)
        m   == Len(v)
        x   == Val(w[Len(w)])
        dev == m * x - Sum(v)
    IN  IF VarNum(w) = 0 THEN ZOfEqual(m, MeanDev(x, m))
        ELSE IF dev < 0 THEN -SqrtFixed(dev * dev * (m - 1), m * VarNum(w))
        ELSE SqrtFixed(dev * dev * (m - 1), m * VarNum(w))

\* a window that reads the whole series, values after position i included
WindowWhole(series, i) == series

\* window = series.iloc[: i + 1]
Window(series, i) == SubSeq(series, 1, i)

\* window.std() == 0 for a window of 2 or more non-null values.  pandas takes
\* avg = values.sum() / count and std = sqrt(((avg - values) ** 2).sum() /
\* (count - 1)) in float64, so std is 0 only if avg equals every value: the
\* values are all the same x and the mean of the copies of x is x itself
\* (0.1 + 0.1 + 0.1 is 0.30000000000000004, a third of it is not 0.1)
StdIsZero(window) ==
    /\ VarNum(window) = 0
    /\ MeanDev(Present(window)[1], Count(window)) = 0

\* window.count() < 2 or window.std() == 0
Degenerate(window) == Count(window) < 2 \/ StdIsZero(window)

\* one iteration of the loop: the value appended to z at position i (1-based)
ZAt(series, i) ==
    LET window == Window(series, i)
    IN  IF Degenerate(window) THEN Some(0)
        ELSE IF IsNull(window[Len(window)]) \/ Count(window) < 2 THEN Null
        ELSE Some(ZOf(window))

\* z after the first n iterations of the loop (z = []; z.append(...) per i)
RECURSIVE ZLoop(_, _)
ZLoop(series, n) ==
    IF n = 0 THEN <<>> ELSE Append(ZLoop(series, n - 1), ZAt(series, n))

rolling_zscore(series) == ZLoop(series, Len(series))

-----------------------------------------------------------------------------
(* Study of rolling_zscore on its own: two series are normalized *)

\* series of the values 0, 0.1, ..., MaxVal / 10 (in tenths) and NaN
SeriesSet == SeqsUpTo(Opt(0..MaxVal), MaxLen)

IdleZ == seriesA = <<>> /\ seriesB = <<>> /\ zA = <<>> /\ zB = <<>>
IdleA == /\ table = <<>> /\ min_signals = 0 /\ result = <<>>
         /\ alpha_raw = 0 /\ labelled = <<>>
IdleH == http = "none" /\ raw = <<>>
IdleS == /\ uploaded_file = Null /\ raw_df = Null /\ pivot = Null
         /\ confirmed = FALSE /\ alpha_df = Null /\ run_status = "none"
         /\ tabs_run = {} /\ confirm_drawn = FALSE

InitZ ==
    /\ phase = "input"
    /\ seriesA \in SeriesSet
    /\ seriesB \in SeriesSet
    /\ zA = <<>> /\ zB = <<>>
    /\ IdleA /\ IdleH /\ IdleS /\ ai_view = Null

Normalize ==
    /\ phase = "input"
    /\ zA' = rolling_zscore(seriesA)
    /\ zB' = rolling_zscore(seriesB)
    /\ phase' = "done"
    /\ UNCHANGED <<seriesA, seriesB, avars, lvars, hvars, svars, ai_view>>

NextZ == Normalize

SpecZ == InitZ /\ [][NextZ]_vars

-----------------------------------------------------------------------------
(* forensic_alpha: src/utils/forensic_alpha.py:25-110 *)

\* column order of the input frame: beneish, sloan, piotroski, altman
Metrics == 1..4

\* base_weights, in units of 10^-2
base_weights == <<35, 25, 25, 15>>

\* sign applied to rolling_zscore per column: -, -, +, +
polarity == <<-1, -1, 1, 1>>

\* df.notna().sum(axis=1) of one row of the four input columns
SignalCount(vals) == Cardinality({k \in Metrics : NotNull(vals[k])})

\* pd.DataFrame({...}) with df["signal_count"]: one row per year of the union
\* of the inputs' years, in year order; a year absent from a series is null
RECURSIVE AssembledRows(_, _)
AssembledRows(tbl, n) ==
    IF n = 0 THEN <<>>
    ELSE Append(AssembledRows(tbl, n - 1),
                [year |-> n, vals |-> tbl[n], signal_count |-> SignalCount(tbl[n])])

AssembledFrame(tbl) == AssembledRows(tbl, Len(tbl))

\* keeps a row when it has more than min_signals signals
KeepRowStrict(row, ms) == row.signal_count > ms

\* df["signal_count"] >= min_signals
KeepRow(row, ms) == row.signal_count >= ms

\* df = df[df["signal_count"] >= min_signals]
RECURSIVE FilterRows(_, _)
FilterRows(df, ms) ==
    IF df = <<>> THEN <<>>
    ELSE IF KeepRow(Head(df), ms) THEN <<Head(df)>> \o FilterRows(Tail(df), ms)
    ELSE FilterRows(Tail(df), ms)

\* df[<metric k>]
RECURSIVE Column(_, _)
Column(df, k) == IF df = <<>> THEN <<>> ELSE <<Head(df).vals[k]>> \o Column(Tail(df), k)

\* unary minus / identity on a nullable series
RECURSIVE Signed(_, _)
Signed(z, sgn) ==
    IF z = <<>> THEN <<>>
    ELSE <<IF IsNull(Head(z)) THEN Null ELSE Some(sgn * Val(Head(z)))>> \o Signed(Tail(z), sgn)

\* the cell numbered v: -1 is the missing value
CellOf(v) == IF v < 0 THEN Null ELSE Some(v)

\* a series of integer scores written in tenths, as rolling_zscore reads it
RECURSIVE InTenths(_)
InTenths(series) ==
    IF series = <<>> THEN <<>>
    ELSE <<IF IsNull(Head(series)) THEN Null ELSE Some(10 * Val(Head(series)))>>
             \o InTenths(Tail(series))

\* rolling_zscore of `prefix` and of its extensions by up to k cells
RECURSIVE TableFrom(_, _), TableOver(_, _, _)
TableFrom(prefix, k) ==
    (prefix :> rolling_zscore(InTenths(prefix)))
        @@ (IF k = 0 THEN <<>> ELSE TableOver(prefix, k, MaxScore))

TableOver(prefix, k, v) ==
    TableFrom(Append(prefix, CellOf(v)), k - 1)
        @@ (IF v < 0 THEN <<>> ELSE TableOver(prefix, k, v - 1))

\* rolling_zscore tabulated over every column a table of the study can hold
ZScoreOf == TableFrom(<<>>, MaxYears)

\* the signals frame, as one sequence per metric
Signals(df) ==
    << Signed(ZScoreOf[Column(df, 1)], polarity[1]),
       Signed(ZScoreOf[Column(df, 2)], polarity[2]),
       Signed(ZScoreOf[Column(df, 3)], polarity[3]),
       Signed(ZScoreOf[Column(df, 4)], polarity[4]) >>

\* signals.mul(weights), row i: units of 10^-9, null stays null
WeightedCell(sig, w) == IF IsNull(sig) THEN Null ELSE Some(w * Val(sig))

Weighted(signals, i) ==
    << WeightedCell(signals[1][i], base_weights[1]),
       WeightedCell(signals[2][i], base_weights[2]),
       WeightedCell(signals[3][i], base_weights[3]),
       WeightedCell(signals[4][i], base_weights[4]) >>

\* a cell's share of a skip-NaN sum
OrZero(c) == IF IsNull(c) THEN 0 ELSE Val(c)

\* weighted.sum(axis=1), one row (pandas sum skips NaN; all-NaN sums to 0)
RowSum(cells) == OrZero(cells[1]) + OrZero(cells[2]) + OrZero(cells[3]) + OrZero(cells[4])

\* divides by the full weight table whatever is missing
NormalizedWeightsStatic(weighted) == Sum(base_weights)

\* weighted.notna().mul(weights).sum(axis=1), one row
NormalizedWeights(weighted) ==
    (IF NotNull(weighted[1]) THEN base_weights[1] ELSE 0)
    + (IF NotNull(weighted[2]) THEN base_weights[2] ELSE 0)
    + (IF NotNull(weighted[3]) THEN base_weights[3] ELSE 0)
    + (IF NotNull(weighted[4]) THEN base_weights[4] ELSE 0)

\* Series.round(4) is numpy's rint(x * 10^4) / 10^4 on float64.  A decimal
\* that lies half way between two multiples of 10^-4, (2n + 1) / 20000, is a
\* float64 only when 625 divides 2n + 1; otherwise x is the float64 next to
\* it and the product x * 10^4 is rounded to a float64 once more.

\* round-half-even of n + 1/2
HalfEven(n) == IF n % 2 = 0 THEN n ELSE n + 1

\* rint(x * 10^4) for the float64 x nearest to (2n + 1) / 20000, n >= 0.
\* num / den in [1, 2) is the significand of the decimal and r / den the part
\* of it beyond the 52 binary digits x keeps, so x is r / den of a unit below
\* the decimal when that is under a half and 1 - r / den above it otherwise.
\* The product is off n + 1/2 by 10^4 times as much; it is n + 1/2 itself
\* unless that exceeds half a unit of the product, which takes a product of
\* 13 more binary places than x (num / den < 2^14 / 10^4) and x more than
\* 2^12 / 10^4 = 256/625 of its unit away from the decimal.
TieRint(n) ==
    LET den == ScaleDen(2 * n + 1, 20000)
        num == ScaleNum(2 * n + 1, den)
        r   == BitsRem(num - den, den, 52)
    IN  IF r = 0 \/ 625 * num >= 1024 * den THEN HalfEven(n)
        ELSE IF 2 * r < den
             THEN (IF 625 * r > 256 * den THEN n ELSE HalfEven(n))
             ELSE (IF 625 * r < 369 * den THEN n + 1 ELSE HalfEven(n))

\* rint of num / den for num >= 0, den > 0
RintDiv(num, den) ==
    IF 2 * (num % den) < den THEN num \div den
    ELSE IF 2 * (num % den) > den THEN (num \div den) + 1
    ELSE TieRint(num \div den)

\* num / den (units of 10^-4) rounded as round(4) rounds its float64
RoundDiv(num, den) ==
    IF num < 0 THEN 0 - RintDiv(0 - num, den) ELSE RintDiv(num, den)

\* (weighted.sum(axis=1) / normalized_weights.replace(0, np.nan)).round(4), one
\* row: wsum is in units of 10^-9, nw in 10^-2, the result in 10^-4
AlphaRounded(wsum, nw) ==
    IF nw = 0 THEN Null ELSE Some(RoundDiv(wsum, nw * 1000))

\* label with the thresholds made non-strict
labelNonStrict(alpha) ==
    IF IsNull(alpha) THEN "Neutral"
    ELSE IF Val(alpha) >= 10000 THEN "Strong Positive"
    ELSE IF Val(alpha) >= 3000 THEN "Positive"
    ELSE IF Val(alpha) <= -10000 THEN "Strong Negative"
    ELSE IF Val(alpha) <= -3000 THEN "Negative"
    ELSE "Neutral"

\* label(alpha), alpha in units of 10^-4; every comparison with NaN is False
label(alpha) ==
    IF NotNull(alpha) /\ Val(alpha) > 10000 THEN "Strong Positive"
    ELSE IF NotNull(alpha) /\ Val(alpha) > 3000 THEN "Positive"
    ELSE IF NotNull(alpha) /\ Val(alpha) < -10000 THEN "Strong Negative"
    ELSE IF NotNull(alpha) /\ Val(alpha) < -3000 THEN "Negative"
    ELSE "Neutral"

\* pd.DataFrame(): no rows and no columns
EmptyFrame == [columns |-> {}, rows |-> <<>>]

ResultColumns ==
    {"beneish_signal", "sloan_signal", "piotroski_signal", "altman_signal",
     "forensic_alpha", "signal_count", "signal"}

\* a row of the returned frame, its forensic_alpha labelled
LabelledRow(year, sigs, alpha, count) ==
    [year           |-> year,
     signals        |-> sigs,
     forensic_alpha |-> alpha,
     signal_count   |-> count,
     signal         |-> label(alpha)]

\* forensic_alpha (rounded) of one row from its weighted contributions
AlphaOfRow(weighted) == AlphaRounded(RowSum(weighted), NormalizedWeights(weighted))

\* one row of the returned frame
ResultRow(df, signals, i) ==
    LabelledRow(df[i].year,
                <<signals[1][i], signals[2][i], signals[3][i], signals[4][i]>>,
                AlphaOfRow(Weighted(signals, i)),
                df[i].signal_count)

RECURSIVE ResultRows(_, _, _)
ResultRows(df, signals, n) ==
    IF n = 0 THEN <<>>
    ELSE Append(ResultRows(df, signals, n - 1), ResultRow(df, signals, n))

\* result = signals.copy() plus the forensic_alpha, signal_count, signal columns
ResultFrame(df, signals) ==
    [columns |-> ResultColumns, rows |-> ResultRows(df, signals, Len(df))]

\* the part of forensic_alpha after the filter
Blend(df) == IF df = <<>> THEN EmptyFrame ELSE ResultFrame(df, Signals(df))

forensic_alpha(tbl, ms) == Blend(FilterRows(AssembledFrame(tbl), ms))

-----------------------------------------------------------------------------
(* Study of forensic_alpha: one call on four series of up to MaxYears years, *)
(* and the rounding and labelling of alphas close to the label thresholds    *)

\* the number of years a series has no value for
Gaps(c) == Cardinality({i \in DOMAIN c : IsNull(c[i])})

\* the series over n years that lack at most MaxGaps of them
ColumnSet(n) == {c \in [1..n -> Opt(0..MaxScore)] : Gaps(c) <= MaxGaps}

\* the four series side by side, one row per year
RECURSIVE Rows(_, _, _, _, _)
Rows(b, s, p, a, n) ==
    IF n = 0 THEN <<>> ELSE Append(Rows(b, s, p, a, n - 1), <<b[n], s[n], p[n], a[n]>>)

\* min_signals is an int the function does not validate; 1..4 is the documented range
MinSignalsSet == 0..4

\* the label thresholds and zero, in units of 10^-4
ProbeCentres == {-10000, -3000, 0, 3000, 10000}

\* unrounded alphas within ProbeSpan * 10^-6 of a centre, in units of 10^-6
ProbeSet == {c * 100 + d : c \in ProbeCentres, d \in (0 - ProbeSpan)..ProbeSpan}

InitTable ==
    /\ phase = "input"
    /\ \E n \in 0..MaxYears :
          \E b \in ColumnSet(n), s \in ColumnSet(n), p \in ColumnSet(n), a \in ColumnSet(n) :
             table = Rows(b, s, p, a, n)
    /\ alpha_raw = 0

InitProbe ==
    /\ phase = "probe"
    /\ table = <<>>
    /\ alpha_raw \in ProbeSet

InitA ==
    /\ InitProbe \/ InitTable
    /\ min_signals = 0
    /\ result = <<>>
    /\ labelled = <<>>
    /\ IdleZ /\ IdleH /\ IdleS /\ ai_view = Null

\* forensic_alpha(beneish, sloan, piotroski, altman, min_signals)
Compute ==
    /\ phase = "input"
    /\ \E ms \in MinSignalsSet :
          /\ min_signals' = ms
          /\ result' = forensic_alpha(table, ms)
    /\ phase' = "done"
    /\ UNCHANGED <<table, zvars, lvars, hvars, svars, ai_view>>

\* the last two steps of forensic_alpha on a row whose four signals are present
\* and whose weighted sum is the float64 nearest to alpha_raw: .round(4), then
\* label
Classify ==
    /\ phase = "probe"
    /\ labelled' = <<AlphaRounded(alpha_raw * 1000, Sum(base_weights)),
                     label(AlphaRounded(alpha_raw * 1000, Sum(base_weights)))>>
    /\ phase' = "labelled"
    /\ UNCHANGED <<alpha_raw, avars, zvars, hvars, svars, ai_view>>

NextA == Compute \/ Classify

SpecA == InitA /\ [][NextA]_vars

-----------------------------------------------------------------------------
(* ai_alpha_recommendation: src/utils/alpha_ai_advisor.py:26-58, and the     *)
(* button that calls it: src/app.py:207-217                                  *)
(*                                                                           *)
(* The model's text is a sequence of tokens.  "{" and "}" are the two        *)
(* characters, and no other token holds either of them, so raw.find("{")     *)
(* and raw.rfind("}") see the tokens "{" and "}" and nothing else.  A member *)
(* token is one well-formed member of a JSON object, named by its key, whose *)
(* value is a string, a number, true, false or null; "recommendation[]" is a *)
(* recommendation member whose value is a JSON array of such values.  "text" *)
(* is any other run of characters.  Positions are 1-based and 0 stands for   *)
(* Python's -1.                                                              *)

\* the keys the script reads
ViewKeys == {"recommendation", "confidence", "reasoning"}

MemberTokens == ViewKeys \cup {"recommendation[]"}
Tokens == {"{", "}", "text"} \cup MemberTokens

\* the key of a member
KeyOf(tok) == IF tok = "recommendation[]" THEN "recommendation" ELSE tok

\* how requests.post(...), raise_for_status() and response.json().get(...) end
HttpOutcomes ==
    {"connection_error", "timeout", "http_error", "body_not_json",
     "body_not_object", "response_not_text", "no_response_field", "ok"}

\* raw.find(tok)
RECURSIVE FindFrom(_, _, _)
FindFrom(text, tok, i) ==
    IF i > Len(text) THEN 0
    ELSE IF text[i] = tok THEN i ELSE FindFrom(text, tok, i + 1)

Find(text, tok) == FindFrom(text, tok, 1)

\* raw.rfind(tok)
RECURSIVE RFindFrom(_, _, _)
RFindFrom(text, tok, i) ==
    IF i = 0 THEN 0
    ELSE IF text[i] = tok THEN i ELSE RFindFrom(text, tok, i - 1)

RFind(text, tok) == RFindFrom(text, tok, Len(text))

\* raw[start:end + 1]
Slice(text, start, end) == IF start > end THEN <<>> ELSE SubSeq(text, start, end)

\* json.loads accepts the text: one object whose members are well formed
Parses(text) ==
    /\ Len(text) >= 2
    /\ text[1] = "{" /\ text[Len(text)] = "}"
    /\ \A i \in 2..(Len(text) - 1) : text[i] \in MemberTokens

\* the kind of the value a dict holds for "recommendation": of members with
\* the same key json.loads keeps the last
RECURSIVE RecommendationKind(_, _)
RecommendationKind(text, i) ==
    IF i = 0 THEN "absent"
    ELSE IF text[i] = "recommendation" THEN "scalar"
    ELSE IF text[i] = "recommendation[]" THEN "array"
    ELSE RecommendationKind(text, i - 1)

\* the dict json.loads returns
Loaded(text) ==
    [source         |-> "model",
     keys           |-> {KeyOf(text[i]) : i \in 2..(Len(text) - 1)},
     recommendation |-> RecommendationKind(text, Len(text))]

\* the dict of the except branch: HOLD / Low / "AI interpretation unavailable..."
Fallback == [source |-> "fallback", keys |-> ViewKeys, recommendation |-> "scalar"]

\* the text held by raw after response.json().get("response", "")
RawOf(outcome, text) == IF outcome = "ok" THEN text ELSE <<>>

\* an exception is raised before raw is searched
RaisesEarly(outcome) == outcome \notin {"ok", "no_response_field"}

ai_alpha_recommendation(outcome, text) ==
    IF RaisesEarly(outcome) THEN Fallback
    ELSE IF Find(RawOf(outcome, text), "{") = 0 \/ RFind(RawOf(outcome, text), "}") = 0
         THEN Fallback
    ELSE IF ~Parses(Slice(RawOf(outcome, text), Find(RawOf(outcome, text), "{"),
                          RFind(RawOf(outcome, text), "}")))
         THEN Fallback
    ELSE Loaded(Slice(RawOf(outcome, text), Find(RawOf(outcome, text), "{"),
                      RFind(RawOf(outcome, text), "}")))

\* st.metric("Recommendation", ai_view["recommendation"]), st.caption(f"...
\* {ai_view['confidence']}"), st.write(ai_view["reasoning"]): a missing key
\* raises KeyError in the script, and st.metric raises TypeError for a value
\* that is not an int, a float, a str or None; the f-string and st.write take
\* every value
Displayed(view) ==
    IF ~(ViewKeys \subseteq view.keys) THEN "exception"
    ELSE IF view.recommendation # "scalar" THEN "exception"
    ELSE "ok"

InitH ==
    /\ phase = "ready"
    /\ http = "none" /\ raw = <<>>
    /\ ai_view = Null
    /\ IdleZ /\ IdleA /\ IdleS

\* where the run started by the click can end.  A widget event that arrives
\* while the script runs makes Streamlit stop the run at its next st.* command
\* or st.session_state access: before the call (st.spinner, line 208), after
\* it and before ai_view is read (the end of the spinner, st.columns, line
\* 211), or not at all
GenerateCuts == {"before_call", "after_call", "end"}

\* a click on "Generate AI Recommendation"
Generate ==
    /\ phase = "ready"
    /\ \E cut \in GenerateCuts :
          IF cut = "before_call"
          THEN /\ UNCHANGED <<http, raw, ai_view>>
               /\ run_status' = "interrupted"
               /\ phase' = "cut"
          ELSE \E outcome \in HttpOutcomes, text \in SeqsUpTo(Tokens, MaxRaw) :
                  /\ outcome # "ok" => text = <<>>
                  /\ http' = outcome
                  /\ raw' = text
                  /\ ai_view' = Some(ai_alpha_recommendation(outcome, text))
                  /\ run_status' =
                        IF cut = "end"
                        THEN Displayed(ai_alpha_recommendation(outcome, text))
                        ELSE "interrupted"
                  /\ phase' = IF cut = "end" THEN "shown" ELSE "cut"
    /\ UNCHANGED <<zvars, avars, lvars, uploaded_file, raw_df, pivot, confirmed,
                   alpha_df, tabs_run, confirm_drawn>>

NextH == Generate

SpecH == InitH /\ [][NextH]_vars

-----------------------------------------------------------------------------
(* The script: src/app.py.  session_state is raw_df, pivot, confirmed; the   *)
(* file_uploader keeps its file across runs.  One run of the script is one   *)
(* action.  A widget event that arrives while the script runs makes          *)
(* Streamlit stop the run at its next st.* command or st.session_state       *)
(* access and start the next run, so a run takes effect up to a cut point.   *)
(* The four score series of utils.forensic_scores are read off the pivot:    *)
(* the pivot is modelled by the table of scores it yields.                   *)

\* min_signals: int = 3
DefaultMinSignals == 3

RequiredColumns == {"Statement", "Item"}

\* an uploaded file, by the columns of the frame read from it
FileSet == {Some(cols) : cols \in SUBSET RequiredColumns}

\* passes when either required column is there
HasAnyRequiredColumn(cols) == RequiredColumns \cap cols # {}

\* {"Statement", "Item"}.issubset(df.columns)
HasRequiredColumns(cols) == RequiredColumns \subseteq cols

\* one year of scores of which the first k are there: the script acts on how
\* many scores a year has (signal_count), not on which they are
PivotCell(k) == [m \in 1..4 |-> IF m <= k THEN Some(0) ELSE Null]

\* the score tables a confirmed pivot can yield
PivotSet == SeqsUpTo({PivotCell(k) : k \in 0..4}, MaxPivotYears)

\* beneish_m_score_series(pivot), ..., altman_z_score_series(pivot), as a table
ScoresOf(pv) == pv

\* the widget events that start a run
Events == {"upload", "remove_file", "confirm", "rerun"}

\* where a run can end, in script order:
\*   start     before st.session_state.raw_df is written (line 68)
\*   uploaded  after line 68, before the button of line 100 is drawn
\*   button    after the button, before st.session_state.pivot is written (145)
\*   pivot     after line 145, before st.session_state.confirmed is written (146)
\*   tab1      after tab 1, before tab 2 computes the scores (171)
\*   scores    after tab 2, before tab 3 calls forensic_alpha (193)
\*   alpha     after forensic_alpha returned, before line 202 reads its column
\*   end       the run is not cut short
CutPoints == <<"start", "uploaded", "button", "pivot", "tab1", "scores", "alpha", "end">>

CutRank(cut) == CHOOSE i \in 1..Len(CutPoints) : CutPoints[i] = cut

\* a run that ends at cut has executed the script up to point
Reached(cut, point) == CutRank(cut) >= CutRank(point)

\* st.session_state.raw_df after lines 57-69
RawDfAfterUpload(file, old) == IF file = Null THEN old ELSE file

\* st.session_state.raw_df when the run ends
RawDfAt(file, cut) ==
    IF Reached(cut, "uploaded") THEN RawDfAfterUpload(file, raw_df) ELSE raw_df

\* st.button("Confirm & Calculate") returned True: the click started the run
\* and line 100 was reached with raw_df set
Clicked(click, file, cut) ==
    IF click /\ Reached(cut, "button") THEN RawDfAt(file, cut) # Null ELSE FALSE

\* st.session_state.pivot when the run ends
PivotAt(click, file, pv, cut) ==
    IF Clicked(click, file, cut) /\ Reached(cut, "pivot") THEN Some(pv) ELSE pivot

\* st.session_state.confirmed when the run ends
ConfirmedAt(click, file, cut) ==
    IF Clicked(click, file, cut) /\ Reached(cut, "tab1") THEN TRUE ELSE confirmed

\* tab 2 computed the four score series
ScoresRun(click, file, cut) ==
    IF Reached(cut, "scores") THEN ConfirmedAt(click, file, cut) ELSE FALSE

\* tab 3 called forensic_alpha
AlphaRun(click, file, cut) ==
    IF Reached(cut, "alpha") THEN ConfirmedAt(click, file, cut) ELSE FALSE

\* alpha_df of tab 3
AlphaAt(click, file, pv, cut) ==
    IF AlphaRun(click, file, cut)
    THEN Some(forensic_alpha(ScoresOf(Val(PivotAt(click, file, pv, cut))),
                             DefaultMinSignals))
    ELSE Null

\* alpha_df["forensic_alpha"] (line 202) raises KeyError on a frame without
\* that column; adf is the alpha_df of the run
Raises(adf, cut) ==
    IF cut = "end" /\ adf # Null THEN "forensic_alpha" \notin Val(adf).columns
    ELSE FALSE

\* how the run ended
StatusAt(adf, cut) ==
    IF cut # "end" THEN "interrupted"
    ELSE IF Raises(adf, cut) THEN "exception" ELSE "ok"

\* the tabs that computed: tab 4 runs when nothing ended the run before it
TabsAt(click, file, cut, status) ==
    (IF ScoresRun(click, file, cut) THEN {"scores"} ELSE {})
    \cup (IF AlphaRun(click, file, cut) THEN {"alpha"} ELSE {})
    \cup (IF status = "ok" THEN {"engine"} ELSE {})

\* the button is on the page: a complete run leaves what it drew; a run cut
\* short adds what it drew to what the page showed before
DrawnAt(file, cut) ==
    IF cut = "end" THEN RawDfAt(file, cut) # Null
    ELSE IF Reached(cut, "button") /\ RawDfAt(file, cut) # Null THEN TRUE
    ELSE confirm_drawn

InitS ==
    /\ phase = "app"
    /\ uploaded_file = Null
    /\ raw_df = Null /\ pivot = Null /\ confirmed = FALSE
    /\ alpha_df = Null
    /\ run_status = "ok"
    /\ tabs_run = {"engine"}
    /\ confirm_drawn = FALSE
    /\ IdleZ /\ IdleA /\ IdleH /\ ai_view = Null

\* lines 57-66 let the run go on: no file, or a file with the columns
PassesUpload(file) == IF file = Null THEN TRUE ELSE HasRequiredColumns(Val(file))

\* st.stop() at line 66: nothing after the column check runs
RerunStopped(file) ==
    /\ uploaded_file' = file
    /\ run_status' = "stopped"
    /\ tabs_run' = {}
    /\ alpha_df' = Null
    /\ confirm_drawn' = FALSE
    /\ UNCHANGED <<raw_df, pivot, confirmed>>

\* the script from its first line to the cut point
RunTo(file, click, pv, cut) ==
    /\ uploaded_file' = file
    /\ raw_df' = RawDfAt(file, cut)
    /\ pivot' = PivotAt(click, file, pv, cut)
    /\ confirmed' = ConfirmedAt(click, file, cut)
    /\ alpha_df' = AlphaAt(click, file, pv, cut)
    /\ run_status' = StatusAt(alpha_df', cut)
    /\ tabs_run' = TabsAt(click, file, cut, run_status')
    /\ confirm_drawn' = DrawnAt(file, cut)

\* one run of the script with the uploader holding file; click: the run was
\* started by "Confirm & Calculate", whose block builds some pivot
Run(file, click) ==
    \E cut \in {CutPoints[i] : i \in 1..Len(CutPoints)} :
        IF ~PassesUpload(file)
        THEN IF cut = "end" THEN RerunStopped(file)
             ELSE cut = "start" /\ RunTo(file, FALSE, <<>>, cut)
        ELSE IF click /\ Reached(cut, "pivot")
             THEN \E pv \in PivotSet : RunTo(file, TRUE, pv, cut)
        ELSE RunTo(file, click, <<>>, cut)

Rerun ==
    /\ phase = "app"
    /\ \E ev \in Events :
          \/ ev = "upload" /\ \E f \in FileSet : Run(f, FALSE)
          \/ ev = "remove_file" /\ uploaded_file # Null /\ Run(Null, FALSE)
          \/ ev = "rerun" /\ Run(uploaded_file, FALSE)
          \/ ev = "confirm" /\ confirm_drawn /\ Run(uploaded_file, TRUE)
    /\ UNCHANGED <<phase, zvars, avars, lvars, hvars, ai_view>>

NextS == Rerun

SpecS == InitS /\ [][NextS]_vars

-----------------------------------------------------------------------------
(* Properties of rolling_zscore, checked under SpecZ *)

\* C2. No look-ahead: two series that agree on positions 1..i get the same
\* normalized value at position i, whatever follows position i in either.
C2_NoLookAhead ==
    phase = "done" =>
        \A i \in 1..Len(seriesA) :
            (i <= Len(seriesB) /\ SubSeq(seriesA, 1, i) = SubSeq(seriesB, 1, i))
                => zA[i] = zB[i]

\* two series share a prefix with a non-zero z at its end and differ after it
C2_Witness ==
    /\ phase = "done"
    /\ \E i \in 1..Len(seriesA) :
          /\ i < Len(seriesA) /\ i <= Len(seriesB)
          /\ SubSeq(seriesA, 1, i) = SubSeq(seriesB, 1, i)
          /\ NotNull(zA[i]) /\ Val(zA[i]) # 0
          /\ (Len(seriesB) = i \/ seriesB[i + 1] # seriesA[i + 1])

\* the positions 1..i of a series that hold a value
PresentUpTo(series, i) == {j \in 1..i : series[j] # <<>>}

\* fewer than 2 observations in positions 1..i, or all of them equal
FlatUpTo(series, i) ==
    \/ Cardinality(PresentUpTo(series, i)) < 2
    \/ \A j, k \in PresentUpTo(series, i) : series[j] = series[k]

\* C9 (as claimed). Convergence rule: wherever the expanding window holds
\* fewer than 2 non-null observations or has zero standard deviation (its
\* non-null values are all the same) the normalized value is 0.0; so position
\* 0 is 0.0, and a series of identical values is 0.0 at every position.
C9_Convergence ==
    phase = "done" =>
        /\ Len(zA) = Len(seriesA)
        /\ \A i \in 1..Len(seriesA) : FlatUpTo(seriesA, i) => zA[i] = <<0>>
        /\ Len(seriesA) >= 1 => zA[1] = <<0>>

-----------------------------------------------------------------------------
(* Properties of forensic_alpha, checked under SpecA *)

\* number of the four raw values of year y that are present
RawCount(y) == Cardinality({k \in 1..4 : table[y][k] # <<>>})

\* the years that meet the threshold
Surviving == {y \in 1..Len(table) : RawCount(y) >= min_signals}

\* metric k over the surviving years only, in year order
SurvivingColumn(k) == [i \in 1..Len(result.rows) |-> table[result.rows[i].year][k]]

\* C1. The returned rows are exactly the years whose signal_count is at least
\* min_signals, in ascending year order, each with its own signal_count; the
\* dropped years are in no normalization window: every signal column is the
\* z-score series of the surviving years' values alone.
C1_MinSignalExclusion ==
    phase = "done" =>
        /\ {result.rows[i].year : i \in 1..Len(result.rows)} = Surviving
        /\ Len(result.rows) = Cardinality(Surviving)
        /\ \A i, j \in 1..Len(result.rows) :
              i < j => result.rows[i].year < result.rows[j].year
        /\ \A i \in 1..Len(result.rows) :
              result.rows[i].signal_count = RawCount(result.rows[i].year)
        /\ \A k \in 1..4 :
              [i \in 1..Len(result.rows) |-> result.rows[i].signals[k]] =
                  Signed(ZScoreOf[SurvivingColumn(k)], polarity[k])

\* a dropped year lies between two kept ones and changes a later window
C1_Witness ==
    /\ phase = "done"
    /\ min_signals \in 1..4
    /\ Len(table) = 3 /\ Surviving = {1, 3}
    /\ table[1][1] = <<0>> /\ table[2][1] = <<1>> /\ table[3][1] = <<1>>
    /\ Len(result.rows) = 2
    /\ result.rows[2].signals[1] = <<-7071067>>

\* the static weights, in hundredths
StaticWeight == <<35, 25, 25, 15>>

\* sum over the non-null signals of a row of weight * signal
PresentWeighted(r) ==
    (IF r.signals[1] = <<>> THEN 0 ELSE StaticWeight[1] * r.signals[1][1])
    + (IF r.signals[2] = <<>> THEN 0 ELSE StaticWeight[2] * r.signals[2][1])
    + (IF r.signals[3] = <<>> THEN 0 ELSE StaticWeight[3] * r.signals[3][1])
    + (IF r.signals[4] = <<>> THEN 0 ELSE StaticWeight[4] * r.signals[4][1])

\* sum of the static weights of the non-null signals of a row
PresentWeight(r) ==
    (IF r.signals[1] = <<>> THEN 0 ELSE StaticWeight[1])
    + (IF r.signals[2] = <<>> THEN 0 ELSE StaticWeight[2])
    + (IF r.signals[3] = <<>> THEN 0 ELSE StaticWeight[3])
    + (IF r.signals[4] = <<>> THEN 0 ELSE StaticWeight[4])

\* a is num / den rounded to the nearest integer (either one at a tie)
IsRounded(a, num, den) ==
    /\ 2 * (a * den - num) <= den
    /\ 2 * (num - a * den) <= den

\* C3. Dynamic renormalization: in every returned row with a non-null signal,
\* forensic_alpha is the weighted sum of the non-null signals divided by the
\* sum of the static weights of exactly those signals (then rounded to 4
\* decimals), not by the full weight sum.
C3_DynamicRenormalization ==
    phase = "done" =>
        \A i \in 1..Len(result.rows) :
            PresentWeight(result.rows[i]) > 0 =>
                /\ result.rows[i].forensic_alpha # <<>>
                /\ IsRounded(result.rows[i].forensic_alpha[1],
                             PresentWeighted(result.rows[i]),
                             1000 * PresentWeight(result.rows[i]))

\* a row with exactly one null signal whose alpha differs from the one the
\* full weight sum would give
C3_Witness ==
    /\ phase = "done"
    /\ min_signals \in 1..4
    /\ \E i \in 1..Len(result.rows) :
          /\ Cardinality({k \in 1..4 : result.rows[i].signals[k] = <<>>}) = 1
          /\ result.rows[i].forensic_alpha # <<>>
          /\ ~IsRounded(result.rows[i].forensic_alpha[1],
                        PresentWeighted(result.rows[i]), 1000 * 100)

\* the five buckets, in units of 10^-4
BucketOf(a) ==
    IF a > 10000 THEN "Strong Positive"
    ELSE IF a > 3000 THEN "Positive"
    ELSE IF a < -10000 THEN "Strong Negative"
    ELSE IF a < -3000 THEN "Negative"
    ELSE "Neutral"

\* C8. A non-null alpha is labelled from its value rounded to 4 decimals, with
\* strict thresholds: > 1.0 Strong Positive, > 0.3 Positive, < -1.0 Strong
\* Negative, < -0.3 Negative, otherwise Neutral; so 1.0 is Positive, 1.0001
\* Strong Positive, 0.3 and -0.3 Neutral, -0.3001 Negative.
C8_LabelBoundaries ==
    /\ phase = "done" =>
          \A i \in 1..Len(result.rows) :
              result.rows[i].forensic_alpha # <<>> =>
                  result.rows[i].signal = BucketOf(result.rows[i].forensic_alpha[1])
    /\ phase = "labelled" =>
          /\ IsRounded(labelled[1][1], alpha_raw, 100)
          /\ labelled[2] = BucketOf(labelled[1][1])
          /\ labelled[1] = <<10000>> => labelled[2] = "Positive"
          /\ labelled[1] = <<10001>> => labelled[2] = "Strong Positive"
          /\ labelled[1] = <<3000>> => labelled[2] = "Neutral"
          /\ labelled[1] = <<-3000>> => labelled[2] = "Neutral"
          /\ labelled[1] = <<-3001>> => labelled[2] = "Negative"

\* an alpha just above 1.0 that rounds to 1.0 and is labelled Positive
C8_Witness ==
    /\ phase = "labelled"
    /\ alpha_raw = 1000040
    /\ labelled = <<(<<10000>>), "Positive">>

\* C4 (as claimed). In the returned signal columns a value is null exactly
\* where the metric's raw value was null in that year.
C4_NullIffRawNull ==
    (phase = "done" /\ min_signals \in 1..4) =>
        \A i \in 1..Len(result.rows) : \A k \in 1..4 :
            (result.rows[i].signals[k] = <<>>) <=> (table[result.rows[i].year][k] = <<>>)

\* C7 (as claimed). A year whose forensic_alpha is null is not labelled
\* "Neutral".
C7_NullAlphaUnlabelled ==
    phase = "done" =>
        \A i \in 1..Len(result.rows) :
            result.rows[i].forensic_alpha = <<>> => result.rows[i].signal # "Neutral"

-----------------------------------------------------------------------------
(* Property of ai_alpha_recommendation, checked under SpecH *)

\* C5 (as claimed). Whatever the call and the model's text, the value returned
\* has the keys recommendation, confidence and reasoning, it is the fixed
\* fallback whenever the call failed, and no run of the script that displays
\* it ends in an exception.
C5_FallbackOnBadResponse ==
    /\ ai_view # <<>> =>
          /\ {"recommendation", "confidence", "reasoning"} \subseteq ai_view[1].keys
          /\ http # "ok" => ai_view[1].source = "fallback"
    /\ run_status # "exception"

-----------------------------------------------------------------------------
(* Properties of the script, checked under SpecS *)

\* C6 (as claimed). A run whose pivot has years, all of them below the
\* min_signals threshold, gets the zero-row table from forensic_alpha and ends
\* without an exception.
C6_EmptyTableIsNoError ==
    (confirmed /\ pivot # <<>> /\ alpha_df # <<>>)
        => ((Len(pivot[1]) >= 1 /\ alpha_df[1].rows = <<>>) => run_status # "exception")

\* the uploaded file lacks "Statement" or "Item"
Rejected(file) == file # <<>> /\ ~({"Statement", "Item"} \subseteq file[1])

\* C10. In every run of the script: confirmed implies that pivot and raw_df
\* are set; a run whose upload is rejected leaves raw_df, pivot and confirmed
\* as they were; the score and alpha tabs compute only when a pivot exists.
C10_SessionState ==
    /\ [](confirmed => (pivot # <<>> /\ raw_df # <<>>))
    /\ []((tabs_run \cap {"scores", "alpha"} # {}) => pivot # <<>>)
    /\ [][Rejected(uploaded_file') => UNCHANGED <<raw_df, pivot, confirmed>>]_vars

\* after a confirmation, a file without the columns is uploaded and rejected
C10_Witness ==
    /\ confirmed /\ pivot # <<>> /\ raw_df # <<>>
    /\ Rejected(uploaded_file)
    /\ run_status = "stopped"

====
